---- MODULE Spec2Model ----
(***************************************************************************)
(* Invoice-intake automation: the approval-decision engine                 *)
(* (src/services/approval_rules.py), the /invoices HTTP handlers           *)
(* (src/api/routers/invoice.py) and the approval record stores             *)
(* (src/services/storage/approvals.py, approvals_sqlite.py).               *)
(*                                                                         *)
(* Numbers: amounts are integers in cents, confidences integers in units   *)
(* of 0.001, so the two formats the code uses (":.2f" and ":.1%") are      *)
(* exact.  Python str is a TLA+ string; Optional[str] is a sequence of     *)
(* length 0 (None) or 1.  The module's strings are ASCII; the one letter   *)
(* outside ASCII the model uses, U+0131 (dotless i), is written "|".       *)
(***************************************************************************)
EXTENDS Integers, Sequences, FiniteSets, TLC

VARIABLES
    settings,     \* src/core/config.py: the process-wide Settings instance
    phase,        \* "idle", or which entry point produced the values below
    request,      \* the JSON payload of the HTTP request being answered
    call,         \* the arguments and config evaluate() was called with
    reasons,      \* evaluate(): the local list `reasons` at return
    decision,     \* the ApprovalDecision evaluate() returned
    response,     \* the HTTP response of the handler
    approvals,    \* storage/approvals.py: ApprovalTracker._approvals
    db,           \* storage/approvals_sqlite.py: the rows of table approvals
    now,          \* the wall clock read by datetime.utcnow() / datetime.now(UTC)
    result,       \* the last tracker call and what each tracker returned
    teams,        \* services/graph.py: approval ids of the cards posted to Teams
    classified,   \* the text, score and result of a classify_document_type call
    callers,      \* per thread: the frame of its evaluate() call in progress
    first,        \* the first evaluate() call that completed: config, args, decision
    inflight,     \* the event loop: decision requests received, handler not yet run
    answered      \* decision requests handled, each with the response it got

vars == <<settings, phase, request, call, reasons, decision, response,
          approvals, db, now, result, teams, classified, callers, first,
          inflight, answered>>

callerVars == <<callers, first>>
ruleVars == <<phase, call, reasons, decision, classified, callerVars>>
storeVars == <<approvals, db, now, result, teams>>
loopVars == <<inflight, answered>>

----------------------------------------------------------------------------
(* Python values *)

None == <<>>
Some(v) == <<v>>

\* Python truthiness of an Optional[str]: None and "" are falsy.
Truthy(o) == o # None /\ o[1] # ""

\* str.lower() on the ASCII letters.
UpperToLower ==
    [A |-> "a", B |-> "b", C |-> "c", D |-> "d", E |-> "e", F |-> "f",
     G |-> "g", H |-> "h", I |-> "i", J |-> "j", K |-> "k", L |-> "l",
     M |-> "m", N |-> "n", O |-> "o", P |-> "p", Q |-> "q", R |-> "r",
     S |-> "s", T |-> "t", U |-> "u", V |-> "v", W |-> "w", X |-> "x",
     Y |-> "y", Z |-> "z"]

LowerChar(c) == IF c \in DOMAIN UpperToLower THEN UpperToLower[c] ELSE c

\* the characters i..j of s, lower-cased
RECURSIVE LowerFrom(_, _, _)
LowerFrom(s, i, j) ==
    IF i > j THEN ""
    ELSE IF i = j THEN LowerChar(SubSeq(s, i, i))
    ELSE LET mid == (i + j) \div 2
         IN  LowerFrom(s, i, mid) \o LowerFrom(s, mid + 1, j)

Lower(s) == LowerFrom(s, 1, Len(s))

\* str.upper() on the ASCII letters and on U+0131, whose upper case is "I"
\* (and whose lower case is itself).
DotlessI == "|"

UpperChar(c) ==
    IF c = DotlessI THEN "I"
    ELSE IF \E k \in DOMAIN UpperToLower : UpperToLower[k] = c
    THEN CHOOSE k \in DOMAIN UpperToLower : UpperToLower[k] = c
    ELSE c

\* the characters i..j of s, upper-cased
RECURSIVE UpperFrom(_, _, _)
UpperFrom(s, i, j) ==
    IF i > j THEN ""
    ELSE IF i = j THEN UpperChar(SubSeq(s, i, i))
    ELSE LET mid == (i + j) \div 2
         IN  UpperFrom(s, i, mid) \o UpperFrom(s, mid + 1, j)

Upper(s) == UpperFrom(s, 1, Len(s))

\* Python `sub in s`.
Contains(s, sub) ==
    \E i \in 1..(Len(s) - Len(sub) + 1) : SubSeq(s, i, i + Len(sub) - 1) = sub

\* "sep".join(parts)
RECURSIVE Join(_, _)
Join(parts, sep) ==
    IF parts = <<>> THEN ""
    ELSE IF Len(parts) = 1 THEN parts[1]
    ELSE parts[1] \o sep \o Join(Tail(parts), sep)

\* str.split(",")
RECURSIVE SplitFrom(_, _, _)
SplitFrom(s, i, cur) ==
    IF i > Len(s) THEN <<cur>>
    ELSE IF SubSeq(s, i, i) = "," THEN <<cur>> \o SplitFrom(s, i + 1, "")
    ELSE SplitFrom(s, i + 1, cur \o SubSeq(s, i, i))

Split(s) == SplitFrom(s, 1, "")

\* str.strip()
IsSpace(c) == c \in {" ", "\t", "\n"}

RECURSIVE LStrip(_)
LStrip(s) ==
    IF Len(s) > 0 /\ IsSpace(SubSeq(s, 1, 1)) THEN LStrip(SubSeq(s, 2, Len(s)))
    ELSE s

RECURSIVE RStrip(_)
RStrip(s) ==
    IF Len(s) > 0 /\ IsSpace(SubSeq(s, Len(s), Len(s)))
    THEN RStrip(SubSeq(s, 1, Len(s) - 1))
    ELSE s

Strip(s) == RStrip(LStrip(s))

Abs(n) == IF n < 0 THEN 0 - n ELSE n

\* f"{amount:.2f}" of an amount in cents
Fmt2f(cents) ==
    (IF cents < 0 THEN "-" ELSE "") \o ToString(Abs(cents) \div 100) \o "."
        \o ToString((Abs(cents) % 100) \div 10) \o ToString(Abs(cents) % 10)

\* f"{confidence:.1%}" of a confidence in units of 0.001
FmtPct(permille) ==
    (IF permille < 0 THEN "-" ELSE "") \o ToString(Abs(permille) \div 10) \o "."
        \o ToString(Abs(permille) % 10) \o "%"

----------------------------------------------------------------------------
(* src/services/approval_rules.py: classify_document_type *)

W(cond, weight) == IF cond THEN weight ELSE 0

\* Variant: the "total due" rule does not look for the zero-amount marker.
Score_TotalDueUnguarded(t) ==
    LET Has(c) == Contains(t, c) IN
      \* obligation cues
      W(Has("amount due") /\ ~Has("$0.00"), 3)
    + W(Has("balance due") /\ ~Has("$0.00") /\ ~Has("balance due 0"), 3)
    + W(Has("total due"), 3)
    + W(Has("please remit") \/ Has("please pay") \/ Has("payment required"), 3)
    + W(Has("due date") \/ Has("payment due"), 4)
    + W(Has("net 30") \/ Has("net 60") \/ Has("due upon receipt")
          \/ Has("payment terms"), 4)
    + W(Has("remit to") \/ Has("remit payment") \/ Has("make payment to"), 3)
    + W(Has("bank details") \/ Has("bsb") \/ Has("account number")
          \/ Has("eft details"), 3)
    + W(Has("wire transfer") \/ Has("bpay") \/ Has("direct deposit"), 3)
    + W(Has("invoice") /\ ~Has("receipt"), 2)
    + W(Has("invoice number") \/ Has("invoice #") \/ Has("invoice no")
          \/ Has("invoice id"), 2)
      \* confirmation cues
    - W(Has("thank you for your payment") \/ Has("payment received"), 3)
    - W(Has("amount paid") \/ Has("paid on") \/ Has("date paid"), 3)
    - W(Has("payment history") \/ Has("transaction history"), 3)
    - W(Has("your order is complete") \/ Has("we appreciate your business"), 3)
    - W(Has("$0.00") \/ Has("balance due 0") \/ Has("balance: $0.00")
          \/ Has("no payment required"), 4)
    - W(Has("balance due: $0.00") \/ Has("amount due: $0.00"), 4)
    - W(Has("visa") /\ (Has("****") \/ Has("ending")), 3)
    - W(Has("mastercard") /\ (Has("****") \/ Has("ending")), 3)
    - W(Has("direct debit") \/ Has("auto-recharge") \/ Has("autopay"), 3)
    - W(Has("paypal") \/ Has("stripe") \/ Has("square"), 3)
    - W(Has("receipt") /\ ~Has("invoice"), 2)
    - W(Has("receipt number") \/ Has("receipt #") \/ Has("receipt no"), 2)
    - W(Has("tax invoice / receipt") \/ Has("tax receipt"), 2)

\* The score accumulated over the lower-cased text t (lines 38-108).
Score(t) ==
    LET Has(c) == Contains(t, c) IN
      \* obligation cues
      W(Has("amount due") /\ ~Has("$0.00"), 3)
    + W(Has("balance due") /\ ~Has("$0.00") /\ ~Has("balance due 0"), 3)
    + W(Has("total due") /\ ~Has("$0.00"), 3)
    + W(Has("please remit") \/ Has("please pay") \/ Has("payment required"), 3)
    + W(Has("due date") \/ Has("payment due"), 4)
    + W(Has("net 30") \/ Has("net 60") \/ Has("due upon receipt")
          \/ Has("payment terms"), 4)
    + W(Has("remit to") \/ Has("remit payment") \/ Has("make payment to"), 3)
    + W(Has("bank details") \/ Has("bsb") \/ Has("account number")
          \/ Has("eft details"), 3)
    + W(Has("wire transfer") \/ Has("bpay") \/ Has("direct deposit"), 3)
    + W(Has("invoice") /\ ~Has("receipt"), 2)
    + W(Has("invoice number") \/ Has("invoice #") \/ Has("invoice no")
          \/ Has("invoice id"), 2)
      \* confirmation cues
    - W(Has("thank you for your payment") \/ Has("payment received"), 3)
    - W(Has("amount paid") \/ Has("paid on") \/ Has("date paid"), 3)
    - W(Has("payment history") \/ Has("transaction history"), 3)
    - W(Has("your order is complete") \/ Has("we appreciate your business"), 3)
    - W(Has("$0.00") \/ Has("balance due 0") \/ Has("balance: $0.00")
          \/ Has("no payment required"), 4)
    - W(Has("balance due: $0.00") \/ Has("amount due: $0.00"), 4)
    - W(Has("visa") /\ (Has("****") \/ Has("ending")), 3)
    - W(Has("mastercard") /\ (Has("****") \/ Has("ending")), 3)
    - W(Has("direct debit") \/ Has("auto-recharge") \/ Has("autopay"), 3)
    - W(Has("paypal") \/ Has("stripe") \/ Has("square"), 3)
    - W(Has("receipt") /\ ~Has("invoice"), 2)
    - W(Has("receipt number") \/ Has("receipt #") \/ Has("receipt no"), 2)
    - W(Has("tax invoice / receipt") \/ Has("tax receipt"), 2)

\* Variant: no `if not text` guard; None.lower() raises AttributeError.
classify_document_type_NoGuard(text) ==
    IF text = None THEN "AttributeError"
    ELSE LET score == Score(Lower(text[1])) IN
         IF score > 2 THEN "invoice"
         ELSE IF score < -2 THEN "receipt"
         ELSE "unknown"

\* Variant: the thresholds include 2 and -2.
classify_document_type_InclusiveThresholds(text) ==
    IF ~Truthy(text) THEN "unknown"
    ELSE LET score == Score(Lower(text[1])) IN
         IF score >= 2 THEN "invoice"
         ELSE IF score <= -2 THEN "receipt"
         ELSE "unknown"

\* Variant: plain keyword matching decides before the score does.
classify_document_type_KeywordFirst(text) ==
    IF ~Truthy(text) THEN "unknown"
    ELSE IF Contains(Lower(text[1]), "invoice") THEN "invoice"
    ELSE LET score == Score(Lower(text[1])) IN
         IF score > 2 THEN "invoice"
         ELSE IF score < -2 THEN "receipt"
         ELSE "unknown"

\* Variant: the cues are matched in the text as given.
classify_document_type_CaseSensitive(text) ==
    IF ~Truthy(text) THEN "unknown"
    ELSE LET score == Score(text[1]) IN
         IF score > 2 THEN "invoice"
         ELSE IF score < -2 THEN "receipt"
         ELSE "unknown"

\* text is Optional[str]; `if not text: return "unknown"`.
classify_document_type(text) ==
    IF ~Truthy(text) THEN "unknown"
    ELSE LET score == Score(Lower(text[1])) IN
         IF score > 2 THEN "invoice"
         ELSE IF score < -2 THEN "receipt"
         ELSE "unknown"

\* The documents the model draws from.
DocInvoice == "INVOICE\nAmount Due: $100.00\nPlease remit payment"
DocReceipt == "RECEIPT\nAmount Paid: $100.00\nThank you for your payment\nVisa ending 1234\nBalance Due: $0.00"
DocUnclear == "Meeting notes"
DocPaidInvoice == "Invoice #7\nAmount Paid: $500\nPayment received via direct debit\nBalance: $0.00"

Contents ==
    {None, Some(""), Some(DocInvoice), Some(DocReceipt), Some(DocUnclear),
     Some(DocPaidInvoice)}

\* classify_document_type is a pure function of the text: its value for
\* each document of the model, computed once.
DocType == [content \in Contents |-> classify_document_type(content)]

----------------------------------------------------------------------------
(* src/services/approval_rules.py: ApprovalRulesConfig, InvoiceApprovalRules *)

\* ApprovalRulesConfig(...): the model's field values.
ApprovalRulesConfig(amount_threshold, min_confidence, require_invoice_keyword, reject_receipt_keyword, allowed_bill_to_names) ==
    [amount_threshold        |-> amount_threshold,
     min_confidence          |-> min_confidence,
     require_invoice_keyword |-> require_invoice_keyword,
     reject_receipt_keyword  |-> reject_receipt_keyword,
     allowed_bill_to_names   |-> allowed_bill_to_names]

\* Variant: an amount equal to the threshold is over the limit.
AmountOk_Strict(config, amount) == amount < config.amount_threshold

\* Check 1 (line 197)
AmountOk(config, amount) == amount <= config.amount_threshold

\* Variant: a confidence equal to the minimum is not enough.
ConfidenceOk_Strict(config, confidence) == confidence > config.min_confidence

\* Check 2 (line 205)
ConfidenceOk(config, confidence) == confidence >= config.min_confidence

\* Variant: the bill-to must equal a whitelisted name (ignoring case).
BillToMatches_Exact(names, bill_to) ==
    \E i \in 1..Len(names) : Lower(bill_to) = Lower(names[i])

\* any(allowed.lower() in bill_to_lower for allowed in allowed_bill_to_names)
BillToMatches(names, bill_to) ==
    \E i \in 1..Len(names) : Contains(Lower(bill_to), Lower(names[i]))

\* Variant: a missing bill-to fails the check whatever the whitelist.
BillToOk_RequiresBillTo(config, bill_to) ==
    IF ~Truthy(bill_to) THEN FALSE
    ELSE IF config.allowed_bill_to_names # <<>>
    THEN BillToMatches(config.allowed_bill_to_names, bill_to[1])
    ELSE TRUE

\* Variant: a missing bill-to is let through.
BillToOk_AbsentPasses(config, bill_to) ==
    IF config.allowed_bill_to_names # <<>>
    THEN IF ~Truthy(bill_to) THEN TRUE
         ELSE BillToMatches(config.allowed_bill_to_names, bill_to[1])
    ELSE TRUE

\* Check 5 (lines 232-249)
BillToOk(config, bill_to) ==
    IF config.allowed_bill_to_names # <<>>
    THEN IF ~Truthy(bill_to) THEN FALSE
         ELSE BillToMatches(config.allowed_bill_to_names, bill_to[1])
    ELSE TRUE

\* The clauses appended to `reasons`, in the order the code appends them.
AmountClause(config, amount) ==
    IF ~AmountOk(config, amount)
    THEN <<"Amount $" \o Fmt2f(amount) \o " exceeds limit of $"
             \o Fmt2f(config.amount_threshold)>>
    ELSE <<>>

ConfidenceClause(config, confidence) ==
    IF ~ConfidenceOk(config, confidence)
    THEN <<"Confidence " \o FmtPct(confidence) \o " below minimum "
             \o FmtPct(config.min_confidence)>>
    ELSE <<>>

InvoiceClause(config, doc_type) ==
    IF config.require_invoice_keyword /\ doc_type # "invoice"
    THEN IF doc_type = "receipt"
         THEN <<"Document classified as receipt (not invoice)">>
         ELSE <<"Document type unclear - lacks invoice indicators">>
    ELSE <<>>

\* Variant: the receipt clause is not repeated when check 3 already gave it.
ReceiptClause_Deduplicated(config, doc_type) ==
    IF config.reject_receipt_keyword /\ doc_type = "receipt"
       /\ ~config.require_invoice_keyword
    THEN <<"Document classified as receipt (not invoice)">>
    ELSE <<>>

ReceiptClause(config, doc_type) ==
    IF config.reject_receipt_keyword /\ doc_type = "receipt"
    THEN <<"Document classified as receipt (not invoice)">>
    ELSE <<>>

BillToClause(config, bill_to) ==
    IF config.allowed_bill_to_names # <<>>
    THEN IF ~Truthy(bill_to)
         THEN <<"Bill To field not found on invoice">>
         ELSE IF ~BillToMatches(config.allowed_bill_to_names, bill_to[1])
         THEN <<"Invoice not addressed to authorized company (found: '"
                  \o bill_to[1] \o "')">>
         ELSE <<>>
    ELSE <<>>

Reasons(config, amount, confidence, doc_type, bill_to) ==
        AmountClause(config, amount) \o ConfidenceClause(config, confidence)
     \o InvoiceClause(config, doc_type) \o ReceiptClause(config, doc_type)
     \o BillToClause(config, bill_to)

\* Variant: a document-type check that is switched off is reported as passed.
Checks_GatedReporting(config, amount, confidence, doc_type, bill_to) ==
        ("amount_within_limit" :> AmountOk(config, amount))
     @@ ("confidence_sufficient" :> ConfidenceOk(config, confidence))
     @@ ("document_type_is_invoice" :>
            (IF config.require_invoice_keyword THEN doc_type = "invoice" ELSE TRUE))
     @@ ("document_type_not_receipt" :>
            (IF config.reject_receipt_keyword THEN ~(doc_type = "receipt") ELSE TRUE))
     @@ ("bill_to_authorized" :> BillToOk(config, bill_to))

\* Variant: the receipt check is stored without its negation.
Checks_ReceiptNotNegated(config, amount, confidence, doc_type, bill_to) ==
        ("amount_within_limit" :> AmountOk(config, amount))
     @@ ("confidence_sufficient" :> ConfidenceOk(config, confidence))
     @@ ("document_type_is_invoice" :> (doc_type = "invoice"))
     @@ ("document_type_not_receipt" :> (doc_type = "receipt"))
     @@ ("bill_to_authorized" :> BillToOk(config, bill_to))

\* The checks dict (lines 198, 206, 218, 219, 251)
Checks(config, amount, confidence, doc_type, bill_to) ==
        ("amount_within_limit" :> AmountOk(config, amount))
     @@ ("confidence_sufficient" :> ConfidenceOk(config, confidence))
     @@ ("document_type_is_invoice" :> (doc_type = "invoice"))
     @@ ("document_type_not_receipt" :> ~(doc_type = "receipt"))
     @@ ("bill_to_authorized" :> BillToOk(config, bill_to))

\* Variant: the bill-to result is left out of the final all([...]).
AllChecksPassed_NoBillTo(config, amount_ok, confidence_ok, is_invoice, is_receipt, bill_to_ok) ==
    /\ amount_ok
    /\ confidence_ok
    /\ (IF config.require_invoice_keyword THEN is_invoice ELSE TRUE)
    /\ (IF config.reject_receipt_keyword THEN ~is_receipt ELSE TRUE)

\* Variant: the invoice classification gates whatever the config flag says.
AllChecksPassed_AlwaysRequireInvoice(config, amount_ok, confidence_ok, is_invoice, is_receipt, bill_to_ok) ==
    /\ amount_ok
    /\ confidence_ok
    /\ is_invoice
    /\ (IF config.reject_receipt_keyword THEN ~is_receipt ELSE TRUE)
    /\ bill_to_ok

\* all([...]) of lines 261-267
AllChecksPassed(config, amount_ok, confidence_ok, is_invoice, is_receipt, bill_to_ok) ==
    /\ amount_ok
    /\ confidence_ok
    /\ (IF config.require_invoice_keyword THEN is_invoice ELSE TRUE)
    /\ (IF config.reject_receipt_keyword THEN ~is_receipt ELSE TRUE)
    /\ bill_to_ok

\* Lines 269-272
ReasonText(all_checks_passed, rs, amount, confidence) ==
    IF all_checks_passed
    THEN "Auto-approved: $" \o Fmt2f(amount) \o ", " \o FmtPct(confidence)
           \o " confidence"
    ELSE "Requires manual review: " \o Join(rs, "; ")

\* Variant: the approved summary names the vendor.
evaluate_VendorInReason(config, amount, confidence, content, vendor, bill_to) ==
    LET doc_type == DocType[content]
        all_checks_passed ==
            AllChecksPassed(config, AmountOk(config, amount),
                            ConfidenceOk(config, confidence),
                            doc_type = "invoice", doc_type = "receipt",
                            BillToOk(config, bill_to))
    IN  [approved |-> all_checks_passed,
         reason   |-> ReasonText(all_checks_passed,
                          Reasons(config, amount, confidence, doc_type, bill_to),
                          amount, confidence)
                      \o (IF vendor # None THEN " (" \o vendor[1] \o ")" ELSE ""),
         checks   |-> Checks(config, amount, confidence, doc_type, bill_to),
         metadata |-> [amount |-> amount, confidence |-> confidence,
                       vendor |-> vendor, config |-> config]]

\* Variant: a call without a vendor is never approved.
evaluate_VendorRequired(config, amount, confidence, content, vendor, bill_to) ==
    LET doc_type == DocType[content]
        all_checks_passed ==
            /\ vendor # None
            /\ AllChecksPassed(config, AmountOk(config, amount),
                               ConfidenceOk(config, confidence),
                               doc_type = "invoice", doc_type = "receipt",
                               BillToOk(config, bill_to))
    IN  [approved |-> all_checks_passed,
         reason   |-> ReasonText(all_checks_passed,
                          Reasons(config, amount, confidence, doc_type, bill_to),
                          amount, confidence),
         checks   |-> Checks(config, amount, confidence, doc_type, bill_to),
         metadata |-> [amount |-> amount, confidence |-> confidence,
                       vendor |-> vendor, config |-> config]]

\* InvoiceApprovalRules(config).evaluate(amount, confidence, content, vendor,
\* bill_to): the ApprovalDecision returned.
evaluate(config, amount, confidence, content, vendor, bill_to) ==
    LET doc_type == DocType[content]
        all_checks_passed ==
            AllChecksPassed(config, AmountOk(config, amount),
                            ConfidenceOk(config, confidence),
                            doc_type = "invoice", doc_type = "receipt",
                            BillToOk(config, bill_to))
    IN  [approved |-> all_checks_passed,
         reason   |-> ReasonText(all_checks_passed,
                          Reasons(config, amount, confidence, doc_type, bill_to),
                          amount, confidence),
         checks   |-> Checks(config, amount, confidence, doc_type, bill_to),
         metadata |-> [amount |-> amount, confidence |-> confidence,
                       vendor |-> vendor, config |-> config]]

\* create_approval_rules: the comma-separated whitelist of the settings
\* (lines 311-316).
ParseBillToEnv(bill_to_env) ==
    IF bill_to_env # ""
    THEN LET parts == Split(bill_to_env)
             stripped == [i \in 1..Len(parts) |-> Strip(parts[i])]
         IN  SelectSeq(stripped, LAMBDA name : name # "")
    ELSE <<>>

OrDefault(override, default) == IF override # None THEN override[1] ELSE default

\* create_approval_rules(...).config; every argument is None or an override.
create_approval_rules(s, amount_threshold, min_confidence, require_invoice_keyword, reject_receipt_keyword, allowed_bill_to_names) ==
    ApprovalRulesConfig(
        OrDefault(amount_threshold, s.approval_amount_threshold),
        OrDefault(min_confidence, s.approval_min_confidence),
        OrDefault(require_invoice_keyword, s.approval_require_invoice_keyword),
        OrDefault(reject_receipt_keyword, s.approval_reject_receipt_keyword),
        IF allowed_bill_to_names = None
        THEN ParseBillToEnv(s.approval_allowed_bill_to_names)
        ELSE allowed_bill_to_names[1])

----------------------------------------------------------------------------
(* The inputs the model draws from *)

Amounts == {-150, 50000, 50001}
Confidences == {849, 850, 920, 1200}
Vendors == {None, Some("ACME Corp")}
BillTos ==
    {None, Some(""), Some("ACME INDUSTRIES INC"), Some("Acme Manufacturing"),
     Some("Competitor Industries Ltd")}

\* The environments the process is started in: APPROVAL_ALLOWED_BILL_TO_NAMES
\* and TEAMS_WEBHOOK_URL.
Environments ==
    {<<"", None>>,
     <<"Acme Industries, Acme Corp,", Some("https://example.com/webhook")>>}

\* The texts classify_document_type is called with directly: None, and the
\* lines of Fragments that a document has, joined by newlines ("" when it
\* has none).
Fragments ==
    <<"INVOICE (PAID - VOID)",
      "Invoice #: INV-999",
      "Amount Paid: $500.00\nPayment received via direct debit\nBalance: $0.00",
      "Payment Terms: Net 30\nDue Date: 2025-11-30",
      "Please remit to BSB 062-000",
      "Receipt",
      "PayPal",
      DotlessI \o "nvoice #7",
      "Total Due">>

LinesOf(chosen) ==
    LET Pick[i \in 0..Len(Fragments)] ==
            IF i = 0 THEN <<>>
            ELSE IF i \in chosen THEN Append(Pick[i - 1], Fragments[i])
            ELSE Pick[i - 1]
    IN  Pick[Len(Fragments)]

Texts ==
    {None} \cup {Some(Join(LinesOf(chosen), "\n")) : chosen \in SUBSET (1..Len(Fragments))}

AmountOverrides == {None, Some(50001)}
ConfidenceOverrides == {None, Some(920)}
FlagOverrides == {None, Some(FALSE)}
WhitelistOverrides == {None, Some(<<"Acme Corp">>)}

----------------------------------------------------------------------------
(* Threads calling evaluate(): each call has its frame of local variables *)

MaxThreads == 2       \* threads calling evaluate() at the same time
Threads == 1..MaxThreads

\* No call in progress.
IdleFrame ==
    [pc |-> "idle", instance |-> "", overrides |-> None, config |-> None,
     args |-> None, amount_ok |-> FALSE, confidence_ok |-> FALSE,
     doc_type |-> "", bill_to_ok |-> FALSE, checks |-> <<>>, reasons |-> <<>>,
     decision |-> None]

----------------------------------------------------------------------------
(* src/core/config.py: Settings, read once from the environment *)

Settings(whitelist_env, webhook_url) ==
    [approval_amount_threshold        |-> 50000,
     approval_min_confidence          |-> 850,
     approval_require_invoice_keyword |-> TRUE,
     approval_reject_receipt_keyword  |-> TRUE,
     approval_allowed_bill_to_names   |-> whitelist_env,
     teams_webhook_url                |-> webhook_url]

Init ==
    /\ settings \in {Settings(e[1], e[2]) : e \in Environments}
    /\ phase = "idle"
    /\ request = None
    /\ call = None
    /\ reasons = <<>>
    /\ decision = None
    /\ response = None
    /\ approvals = <<>>
    /\ db = <<>>
    /\ now = 0
    /\ result = None
    /\ teams = {}
    /\ classified = None
    /\ callers = [c \in Threads |-> IdleFrame]
    /\ first = None
    /\ inflight = {}
    /\ answered = <<>>

----------------------------------------------------------------------------
(* The approval-decision engine and POST /invoices/validate *)

\* Variant: the overrides of a request are written back into the settings.
Evaluate_StoresOverrides ==
    /\ phase = "idle"
    /\ \E amount \in Amounts, confidence \in Confidences, content \in Contents,
          vendor \in Vendors, bill_to \in BillTos,
          ot \in AmountOverrides, oc \in ConfidenceOverrides,
          oi \in FlagOverrides, orc \in FlagOverrides,
          ow \in WhitelistOverrides :
          LET config == create_approval_rules(settings, ot, oc, oi, orc, ow) IN
          /\ call' = [config |-> config, amount |-> amount,
                      confidence |-> confidence, content |-> content,
                      vendor |-> vendor, bill_to |-> bill_to]
          /\ reasons' = Reasons(config, amount, confidence,
                                DocType[content], bill_to)
          /\ decision' = evaluate(config, amount, confidence, content, vendor,
                                  bill_to)
          /\ settings' = [settings EXCEPT
                 !.approval_amount_threshold = config.amount_threshold,
                 !.approval_min_confidence = config.min_confidence,
                 !.approval_require_invoice_keyword = config.require_invoice_keyword,
                 !.approval_reject_receipt_keyword = config.reject_receipt_keyword]
    /\ phase' = "evaluate"
    /\ UNCHANGED <<loopVars, request, response, storeVars, classified, callerVars>>

\* A caller builds rules with create_approval_rules(overrides) and calls
\* rules.evaluate(amount, confidence, content, vendor, bill_to).
Evaluate ==
    /\ phase = "idle"
    /\ \E amount \in Amounts, confidence \in Confidences, content \in Contents,
          vendor \in Vendors, bill_to \in BillTos,
          ot \in AmountOverrides, oc \in ConfidenceOverrides,
          oi \in FlagOverrides, orc \in FlagOverrides,
          ow \in WhitelistOverrides :
          LET config == create_approval_rules(settings, ot, oc, oi, orc, ow) IN
          /\ call' = [config |-> config, amount |-> amount,
                      confidence |-> confidence, content |-> content,
                      vendor |-> vendor, bill_to |-> bill_to]
          /\ reasons' = Reasons(config, amount, confidence,
                                DocType[content], bill_to)
          /\ decision' = evaluate(config, amount, confidence, content, vendor,
                                  bill_to)
    /\ phase' = "evaluate"
    /\ UNCHANGED <<loopVars, settings, request, response, storeVars, classified, callerVars>>

\* POST /invoices/validate (validate_for_approval).  ValidateRequest declares
\* amount, confidence, content and vendor; any other key of the payload is
\* dropped by the request model.
ValidateForApproval ==
    /\ phase = "idle"
    /\ \E amount \in Amounts, confidence \in Confidences,
          content \in Contents \ {None}, vendor \in Vendors,
          bill_to \in BillTos :
          LET config == create_approval_rules(settings, None, None, None, None,
                                              None)
              d == evaluate(config, amount, confidence, content, vendor, None)
          IN
          /\ request' = [amount |-> amount, confidence |-> confidence,
                         content |-> content, vendor |-> vendor,
                         bill_to |-> bill_to]
          /\ call' = [config |-> config, amount |-> amount,
                      confidence |-> confidence, content |-> content,
                      vendor |-> vendor, bill_to |-> None]
          /\ reasons' = Reasons(config, amount, confidence,
                                DocType[content], None)
          /\ decision' = d
          /\ response' = [status_code |-> 200,
                          body |-> [approved |-> d.approved,
                                    reason |-> d.reason,
                                    checks |-> d.checks,
                                    metadata |-> d.metadata]]
    /\ phase' = "validate"
    /\ UNCHANGED <<loopVars, settings, storeVars, classified, callerVars>>

\* A caller classifies a text with classify_document_type(text).  The score
\* is the local `score` at the end of the rules; it does not exist when the
\* function returns at line 35.
ClassifyDocumentType ==
    /\ phase = "idle"
    /\ \E text \in Texts :
          classified' =
              [text   |-> text,
               score  |-> IF Truthy(text) THEN Some(Score(Lower(text[1])))
                          ELSE None,
               result |-> classify_document_type(text)]
    /\ phase' = "classify"
    /\ UNCHANGED <<loopVars, settings, request, call, reasons, decision, response,
                   storeVars, callerVars>>

\* The caller is done with the decision (the response has been sent).
Return ==
    /\ phase # "idle"
    /\ phase' = "idle"
    /\ request' = None
    /\ call' = None
    /\ reasons' = <<>>
    /\ decision' = None
    /\ response' = None
    /\ classified' = None
    /\ UNCHANGED <<loopVars, settings, storeVars, callerVars>>

Next == Evaluate \/ ValidateForApproval \/ ClassifyDocumentType \/ Return

Spec == Init /\ [][Next]_vars

----------------------------------------------------------------------------
(* The approval record stores *)

MaxApprovals == 1     \* records created in one run
MaxClock == 1         \* clock readings 0..MaxClock

\* uuid.uuid4(): a fresh id; the k-th id a tracker hands out is k.
ApprovalIds == 1..(MaxApprovals + 1)
NewId(store) == Cardinality(DOMAIN store) + 1

\* datetime.utcnow().isoformat() and datetime.now(UTC).isoformat()
IsoNaive(t) == "2025-10-21T00:00:0" \o ToString(t)
IsoUtc(t) == "2025-10-21T00:00:0" \o ToString(t) \o "+00:00"

\* json.dumps / json.loads of a dict with string keys: the text is the
\* sequence of its (key, value) members.
RECURSIVE JsonMembers(_, _)
JsonMembers(d, keys) ==
    IF keys = {} THEN <<>>
    ELSE LET k == CHOOSE x \in keys : TRUE
         IN  <<<<k, d[k]>>>> \o JsonMembers(d, keys \ {k})

JsonDumps(d) == JsonMembers(d, DOMAIN d)

JsonLoads(text) ==
    [k \in {text[i][1] : i \in 1..Len(text)} |->
        LET i == CHOOSE j \in 1..Len(text) : text[j][1] = k IN text[i][2]]

\* ApprovalTracker (in memory)
MemCreateApproval(store, invoice_data, t) ==
    store @@ (NewId(store) :>
        [id |-> NewId(store), invoice_data |-> invoice_data,
         status |-> "pending", created_at |-> IsoNaive(t),
         decided_at |-> None, decided_by |-> None])

MemGetApproval(store, approval_id) ==
    IF approval_id \in DOMAIN store THEN Some(store[approval_id]) ELSE None

\* Variant: a decision does not stamp decided_at.
MemDecide_NoDecidedAt(store, approval_id, status, who, t) ==
    IF approval_id \notin DOMAIN store THEN store
    ELSE [store EXCEPT ![approval_id].status = status,
                       ![approval_id].decided_by = Some(who)]

\* approve / reject (lines 31-49)
MemDecide(store, approval_id, status, who, t) ==
    IF approval_id \notin DOMAIN store THEN store
    ELSE [store EXCEPT ![approval_id].status = status,
                       ![approval_id].decided_at = Some(IsoNaive(t)),
                       ![approval_id].decided_by = Some(who)]

MemApprove(store, approval_id, approver, t) ==
    MemDecide(store, approval_id, "approved", approver, t)

MemReject(store, approval_id, rejector, t) ==
    MemDecide(store, approval_id, "rejected", rejector, t)

\* Variant: approve() and reject() return True whatever the id.
MemFound_AlwaysTrue(store, approval_id) == TRUE

\* the bool approve() and reject() return
MemFound(store, approval_id) == approval_id \in DOMAIN store

\* SQLiteApprovalTracker: rows of table approvals, keyed by the primary key.
SqlCreateApproval(rows, invoice_data, t) ==
    rows @@ (NewId(rows) :>
        [id |-> NewId(rows), invoice_data |-> JsonDumps(invoice_data),
         status |-> "pending", created_at |-> IsoUtc(t),
         decided_at |-> None, decided_by |-> None])

\* Variant: a NULL decided_by column is returned as the empty string.
SqlGetApproval_BlankDecidedBy(rows, approval_id) ==
    IF approval_id \notin DOMAIN rows THEN None
    ELSE LET row == rows[approval_id] IN
         Some([id |-> row.id, invoice_data |-> JsonLoads(row.invoice_data),
               status |-> row.status, created_at |-> row.created_at,
               decided_at |-> row.decided_at,
               decided_by |-> IF row.decided_by = None THEN Some("")
                              ELSE row.decided_by])

\* get_approval (lines 100-132)
SqlGetApproval(rows, approval_id) ==
    IF approval_id \notin DOMAIN rows THEN None
    ELSE LET row == rows[approval_id] IN
         Some([id |-> row.id, invoice_data |-> JsonLoads(row.invoice_data),
               status |-> row.status, created_at |-> row.created_at,
               decided_at |-> row.decided_at, decided_by |-> row.decided_by])

\* Variant: the UPDATE leaves decided_by out.
SqlUpdate_NoDecidedBy(rows, approval_id, status, who, t) ==
    [i \in DOMAIN rows |->
        IF i = approval_id
        THEN [rows[i] EXCEPT !.status = status,
                             !.decided_at = Some(IsoUtc(t)),
                             !.decided_by = None]
        ELSE rows[i]]

\* UPDATE approvals SET status = ?, decided_at = ?, decided_by = ? WHERE id = ?
SqlUpdate(rows, approval_id, status, who, t) ==
    [i \in DOMAIN rows |->
        IF i = approval_id
        THEN [rows[i] EXCEPT !.status = status,
                             !.decided_at = Some(IsoUtc(t)),
                             !.decided_by = Some(who)]
        ELSE rows[i]]

SqlApprove(rows, approval_id, approver, t) ==
    SqlUpdate(rows, approval_id, "approved", approver, t)

SqlReject(rows, approval_id, rejector, t) ==
    SqlUpdate(rows, approval_id, "rejected", rejector, t)

\* cursor.rowcount > 0
SqlRowsAffected(rows, approval_id) ==
    Cardinality({i \in DOMAIN rows : i = approval_id}) > 0

InvoiceDatas ==
    {[vendor |-> "Test Corp", total |-> 25050, confidence |-> 980],
     [vendor |-> "Reject Corp", total |-> 10000, confidence |-> 0]}

Approvers == {"user", "manager@example.com"}

\* Time passes between calls.
Tick ==
    /\ now < MaxClock
    /\ now' = now + 1
    /\ UNCHANGED <<loopVars, settings, ruleVars, request, response, approvals, db, result, teams>>

\* Tracker calls: the same call is made on an in-memory tracker and on a
\* SQLite tracker.
TrackerCreateApproval ==
    /\ Cardinality(DOMAIN approvals) < MaxApprovals
    /\ \E invoice_data \in InvoiceDatas :
          /\ approvals' = MemCreateApproval(approvals, invoice_data, now)
          /\ db' = SqlCreateApproval(db, invoice_data, now)
          /\ result' = [op |-> "create_approval", id |-> NewId(approvals),
                        mem |-> NewId(approvals), sql |-> NewId(db)]
    /\ UNCHANGED <<loopVars, settings, ruleVars, request, response, now, teams>>

TrackerApprove ==
    /\ \E approval_id \in ApprovalIds, approver \in Approvers :
          /\ approvals' = MemApprove(approvals, approval_id, approver, now)
          /\ db' = SqlApprove(db, approval_id, approver, now)
          /\ result' = [op |-> "approve", id |-> approval_id,
                        mem |-> MemFound(approvals, approval_id),
                        sql |-> SqlRowsAffected(db, approval_id)]
    /\ UNCHANGED <<loopVars, settings, ruleVars, request, response, now, teams>>

TrackerReject ==
    /\ \E approval_id \in ApprovalIds, rejector \in Approvers :
          /\ approvals' = MemReject(approvals, approval_id, rejector, now)
          /\ db' = SqlReject(db, approval_id, rejector, now)
          /\ result' = [op |-> "reject", id |-> approval_id,
                        mem |-> MemFound(approvals, approval_id),
                        sql |-> SqlRowsAffected(db, approval_id)]
    /\ UNCHANGED <<loopVars, settings, ruleVars, request, response, now, teams>>

TrackerGetApproval ==
    /\ \E approval_id \in ApprovalIds :
          result' = [op |-> "get_approval", id |-> approval_id,
                     mem |-> MemGetApproval(approvals, approval_id),
                     sql |-> SqlGetApproval(db, approval_id)]
    /\ UNCHANGED <<loopVars, settings, ruleVars, request, response, approvals, db, now, teams>>

NextTracker ==
    \/ Tick
    \/ TrackerCreateApproval
    \/ TrackerApprove
    \/ TrackerReject
    \/ TrackerGetApproval

\* The trackers read nothing of the settings: one environment.
InitTracker == Init /\ settings = Settings("", None)

SpecTracker == InitTracker /\ [][NextTracker]_vars

----------------------------------------------------------------------------
(* src/api/routers/invoice.py: the approval workflow endpoints.  The router
   uses the in-memory tracker (storage.approval_tracker).  A handler runs on
   the event loop without interruption up to its first await; the only await
   of these handlers is the post to Teams, after which no handler touches
   the tracker. *)

\* What extract_invoice_fields returns (services/form_recognizer.py).
Extractions ==
    {[vendor |-> "Contoso Pty Ltd", invoice_number |-> "INV-10023",
      invoice_date |-> "2025-09-30", total |-> 38500, currency |-> "AUD",
      confidence |-> 920, content |-> Some(DocInvoice),
      bill_to |-> Some("Ammons DataLabs")],
     [vendor |-> "Unknown", invoice_number |-> "N/A",
      invoice_date |-> "N/A", total |-> 600000, currency |-> "USD",
      confidence |-> 920, content |-> Some(DocReceipt),
      bill_to |-> None],
     [vendor |-> "Contoso Pty Ltd", invoice_number |-> "INV-10023",
      invoice_date |-> "2025-09-30", total |-> 38500, currency |-> "AUD",
      confidence |-> 849, content |-> Some(DocInvoice),
      bill_to |-> Some("Ammons DataLabs")]}

ConfidenceThresholds == {850, 920}

\* The dict process_invoice builds from the extraction (lines 137-144).
InvoiceDataOf(extracted) ==
    [vendor |-> extracted.vendor, invoice_number |-> extracted.invoice_number,
     invoice_date |-> extracted.invoice_date, total |-> extracted.total,
     currency |-> extracted.currency, confidence |-> extracted.confidence]

\* services/graph.py post_approval_card: what the call can do, given the
\* settings: return "skipped" without a webhook URL, else post the card and
\* return "sent", or raise from the HTTP client.
PostOutcomes(s) ==
    IF ~Truthy(s.teams_webhook_url) THEN {"skipped"} ELSE {"sent", "raise"}

\* Variant: a confidence equal to the threshold goes to review.
MeetsThreshold_Strict(extracted, confidence_threshold) ==
    extracted.confidence > confidence_threshold

\* Variant: the amount limit of the approval rules is applied as well.
MeetsThreshold_WithinAmountLimit(extracted, confidence_threshold) ==
    /\ extracted.confidence >= confidence_threshold
    /\ extracted.total <= settings.approval_amount_threshold

\* The routing test of process_invoice (line 147)
MeetsThreshold(extracted, confidence_threshold) ==
    extracted.confidence >= confidence_threshold

\* POST /invoices/process
ProcessInvoice ==
    /\ Cardinality(DOMAIN approvals) < MaxApprovals
    /\ \E confidence_threshold \in ConfidenceThresholds :
       \/ \* extract_invoice_fields raises: caught, HTTP 400
          /\ request' = [op |-> "process", extracted |-> None,
                         confidence_threshold |-> confidence_threshold]
          /\ response' = [status_code |-> 400]
          /\ UNCHANGED <<approvals, teams>>
       \/ \E extracted \in Extractions :
          LET invoice_data == InvoiceDataOf(extracted)
              approval_id == NewId(approvals)
              created == MemCreateApproval(approvals, invoice_data, now)
          IN
          /\ request' = [op |-> "process", extracted |-> Some(extracted),
                         confidence_threshold |-> confidence_threshold]
          /\ IF MeetsThreshold(extracted, confidence_threshold)
             THEN /\ approvals' = MemApprove(created, approval_id,
                                             "system-auto", now)
                  /\ response' = [status_code |-> 200,
                                  status |-> "auto_approved",
                                  approval_id |-> approval_id,
                                  invoice_data |-> invoice_data]
                  /\ UNCHANGED teams
             ELSE /\ approvals' = created
                  /\ \E outcome \in PostOutcomes(settings) :
                        /\ teams' = IF outcome = "sent"
                                    THEN teams \cup {approval_id} ELSE teams
                        /\ response' =
                             IF outcome = "raise"
                             THEN [status_code |-> 400]
                             ELSE [status_code |-> 200,
                                   status |-> "pending_approval",
                                   approval_id |-> approval_id,
                                   invoice_data |-> invoice_data,
                                   teams_result |-> outcome]
    /\ UNCHANGED <<loopVars, settings, ruleVars, db, now, result>>

\* Variant: the card is posted first and the record is created only after
\* the post has returned.
RequestApproval_PostFirst ==
    /\ Cardinality(DOMAIN approvals) < MaxApprovals
    /\ \E extracted \in Extractions, outcome \in PostOutcomes(settings) :
          LET fields == InvoiceDataOf(extracted)
              approval_id == NewId(approvals)
          IN
          /\ request' = [op |-> "request-approval", fields |-> fields]
          /\ approvals' = IF outcome = "raise" THEN approvals
                          ELSE MemCreateApproval(approvals, fields, now)
          /\ teams' = IF outcome = "sent" THEN teams \cup {approval_id}
                      ELSE teams
          /\ response' = IF outcome = "raise" THEN [status_code |-> 500]
                         ELSE [status_code |-> 200, result |-> outcome,
                               approval_id |-> approval_id]
    /\ UNCHANGED <<loopVars, settings, ruleVars, db, now, result>>

\* POST /invoices/request-approval
RequestApproval ==
    /\ Cardinality(DOMAIN approvals) < MaxApprovals
    /\ \E extracted \in Extractions, outcome \in PostOutcomes(settings) :
          LET fields == InvoiceDataOf(extracted)
              approval_id == NewId(approvals)
          IN
          /\ request' = [op |-> "request-approval", fields |-> fields]
          /\ approvals' = MemCreateApproval(approvals, fields, now)
          /\ teams' = IF outcome = "sent" THEN teams \cup {approval_id}
                      ELSE teams
          /\ response' = IF outcome = "raise" THEN [status_code |-> 500]
                         ELSE [status_code |-> 200, result |-> outcome,
                               approval_id |-> approval_id]
    /\ UNCHANGED <<loopVars, settings, ruleVars, db, now, result>>

\* Variant: the handler does not look at the status of the record.
DecisionEndpoint_NoPendingCheck(op, approval_id) ==
    LET approval == MemGetApproval(approvals, approval_id) IN
    /\ request' = [op |-> op, approval_id |-> approval_id]
    /\ IF approval = None
       THEN /\ response' = [status_code |-> 404]
            /\ UNCHANGED approvals
       ELSE /\ approvals' = IF op = "approve"
                            THEN MemApprove(approvals, approval_id, "user", now)
                            ELSE MemReject(approvals, approval_id, "user", now)
            /\ response' = [status_code |-> 200,
                            page |-> IF op = "approve" THEN "Invoice Approved"
                                     ELSE "Invoice Rejected",
                            invoice_data |-> approval[1].invoice_data]
    /\ UNCHANGED <<settings, ruleVars, db, now, result, teams>>

\* Variant: a handler refuses only a record that already has the status it
\* would write.
DecisionEndpoint_ChecksOwnStatus(op, approval_id) ==
    LET approval == MemGetApproval(approvals, approval_id)
        own == IF op = "approve" THEN "approved" ELSE "rejected"
    IN
    /\ request' = [op |-> op, approval_id |-> approval_id]
    /\ IF approval = None
       THEN /\ response' = [status_code |-> 404]
            /\ UNCHANGED approvals
       ELSE IF approval[1].status = own
       THEN /\ response' = [status_code |-> 200, page |-> "Already Processed",
                            status |-> approval[1].status,
                            decided_at |-> approval[1].decided_at]
            /\ UNCHANGED approvals
       ELSE /\ approvals' = IF op = "approve"
                            THEN MemApprove(approvals, approval_id, "user", now)
                            ELSE MemReject(approvals, approval_id, "user", now)
            /\ response' = [status_code |-> 200,
                            page |-> IF op = "approve" THEN "Invoice Approved"
                                     ELSE "Invoice Rejected",
                            invoice_data |-> approval[1].invoice_data]
    /\ UNCHANGED <<settings, ruleVars, db, now, result, teams>>

\* GET /invoices/approval/{approval_id}/approve and .../reject
DecisionEndpoint(op, approval_id) ==
    LET approval == MemGetApproval(approvals, approval_id) IN
    /\ request' = [op |-> op, approval_id |-> approval_id]
    /\ IF approval = None
       THEN /\ response' = [status_code |-> 404]
            /\ UNCHANGED approvals
       ELSE IF approval[1].status # "pending"
       THEN /\ response' = [status_code |-> 200, page |-> "Already Processed",
                            status |-> approval[1].status,
                            decided_at |-> approval[1].decided_at]
            /\ UNCHANGED approvals
       ELSE /\ approvals' = IF op = "approve"
                            THEN MemApprove(approvals, approval_id, "user", now)
                            ELSE MemReject(approvals, approval_id, "user", now)
            /\ response' = [status_code |-> 200,
                            page |-> IF op = "approve" THEN "Invoice Approved"
                                     ELSE "Invoice Rejected",
                            invoice_data |-> approval[1].invoice_data]
    /\ UNCHANGED <<settings, ruleVars, db, now, result, teams>>

ApproveInvoice ==
    /\ \E approval_id \in ApprovalIds : DecisionEndpoint("approve", approval_id)
    /\ UNCHANGED loopVars

RejectInvoice ==
    /\ \E approval_id \in ApprovalIds : DecisionEndpoint("reject", approval_id)
    /\ UNCHANGED loopVars

NextHttp ==
    \/ Tick
    \/ ProcessInvoice
    \/ RequestApproval
    \/ ApproveInvoice
    \/ RejectInvoice

SpecHttp == Init /\ [][NextHttp]_vars

\* The tracker of the router is also called directly, as the tests of the
\* workflow do (tests/test_approval_workflow.py 103-131): direct calls on the
\* two trackers and the two decision endpoints.
NextStore ==
    \/ Tick
    \/ TrackerCreateApproval
    \/ TrackerApprove
    \/ TrackerReject
    \/ TrackerGetApproval
    \/ ApproveInvoice
    \/ RejectInvoice

SpecStore == InitTracker /\ [][NextStore]_vars

----------------------------------------------------------------------------
(* Concurrent decision requests.  approve_invoice and reject_invoice are
   coroutines (async def) without an await: the event loop of the server
   runs the handler of one received request from its first statement to its
   return before it starts another.  Requests are concurrent when they are
   in the server at the same time, in either order of handling. *)

DecisionRequests == [op : {"approve", "reject"}, approval_id : ApprovalIds]

\* The other decision on the same approval id.
Rival(req) ==
    [op |-> IF req.op = "approve" THEN "reject" ELSE "approve",
     approval_id |-> req.approval_id]

\* The server receives GET /invoices/approval/{approval_id}/approve or
\* .../reject (each link is followed once); its handler is scheduled.
ReceiveDecisionRequest ==
    /\ \E req \in DecisionRequests :
          /\ req \notin inflight
          /\ req \notin DOMAIN answered
          /\ inflight' = inflight \cup {req}
    /\ UNCHANGED <<settings, ruleVars, request, response, storeVars, answered>>

\* The event loop runs the handler of one received request to completion.
HandleDecisionRequest ==
    \E req \in inflight :
        /\ DecisionEndpoint(req.op, req.approval_id)
        /\ inflight' = inflight \ {req}
        /\ answered' = answered @@
               (req :> [response |-> response',
                        overlapped |-> Rival(req) \in inflight])

NextLoop ==
    \/ RequestApproval
    \/ ReceiveDecisionRequest
    \/ HandleDecisionRequest

SpecLoop == InitTracker /\ [][NextLoop]_vars

----------------------------------------------------------------------------
(* InvoiceApprovalRules.evaluate statement by statement, called by several
   threads.  A thread calls evaluate on the long-lived rules instance built
   from the settings, or on an instance it builds for the request with
   create_approval_rules(overrides).  Each step is one of the numbered checks
   of the method; `self.config` is read in every step that uses it. *)

\* The arguments of the calls: amount x content; the overrides of a
\* per-request instance switch both document-type checks off.
ThreadArgs ==
    {[amount |-> amount, confidence |-> 920, content |-> content,
      vendor |-> None, bill_to |-> None] :
        amount \in {50000, 50001}, content \in {Some(DocInvoice), Some(DocReceipt)}}

RequestOverrides ==
    [amount_threshold |-> None, min_confidence |-> None,
     require_invoice_keyword |-> Some(FALSE),
     reject_receipt_keyword |-> Some(FALSE), allowed_bill_to_names |-> None]

NoOverrides ==
    [amount_threshold |-> None, min_confidence |-> None,
     require_invoice_keyword |-> None, reject_receipt_keyword |-> None,
     allowed_bill_to_names |-> None]

\* create_approval_rules(**overrides).config under settings s
RulesConfig(s, o) ==
    create_approval_rules(s, o.amount_threshold, o.min_confidence,
                          o.require_invoice_keyword, o.reject_receipt_keyword,
                          o.allowed_bill_to_names)

\* Variant: `checks` is one dict shared by all calls.
SetCheck_SharedDict(cs, c, key, value) ==
    [k \in DOMAIN cs |-> [cs[k] EXCEPT !.checks = (key :> value) @@ @]]

\* checks[key] = value on the dict of the call of thread c
SetCheck(cs, c, key, value) ==
    [cs EXCEPT ![c].checks = (key :> value) @@ @]

\* Variant: `reasons` is one list shared by all calls.
AppendReason_SharedList(cs, c, clauses) ==
    [k \in DOMAIN cs |-> [cs[k] EXCEPT !.reasons = @ \o clauses]]

\* reasons.append(clause) on the list of the call of thread c (no clause
\* when the `if` around it is false)
AppendReason(cs, c, clauses) ==
    [cs EXCEPT ![c].reasons = @ \o clauses]

\* evaluate is entered: lines 193-194
CallEvaluate(c) ==
    /\ callers[c].pc = "idle"
    /\ \E instance \in {"long-lived", "request"}, args \in ThreadArgs :
          LET overrides == IF instance = "request" THEN RequestOverrides
                           ELSE NoOverrides
          IN  callers' = [callers EXCEPT ![c] =
                  [IdleFrame EXCEPT !.pc = "check1", !.instance = instance,
                                    !.overrides = overrides,
                                    !.config = RulesConfig(settings, overrides),
                                    !.args = args,
                                    !.checks = <<>>, !.reasons = <<>>]]
    /\ UNCHANGED <<loopVars, settings, phase, request, call, reasons, decision, response,
                   storeVars, classified, first>>

\* Check 1: lines 197-202
CheckAmount(c) ==
    /\ callers[c].pc = "check1"
    /\ LET f == callers[c]
           amount_ok == AmountOk(f.config, f.args.amount)
           cs1 == SetCheck(callers, c, "amount_within_limit", amount_ok)
           cs2 == AppendReason(cs1, c, AmountClause(f.config, f.args.amount))
       IN  callers' = [cs2 EXCEPT ![c].amount_ok = amount_ok, ![c].pc = "check2"]
    /\ UNCHANGED <<loopVars, settings, phase, request, call, reasons, decision, response,
                   storeVars, classified, first>>

\* Check 2: lines 205-210
CheckConfidence(c) ==
    /\ callers[c].pc = "check2"
    /\ LET f == callers[c]
           confidence_ok == ConfidenceOk(f.config, f.args.confidence)
           cs1 == SetCheck(callers, c, "confidence_sufficient", confidence_ok)
           cs2 == AppendReason(cs1, c,
                               ConfidenceClause(f.config, f.args.confidence))
       IN  callers' = [cs2 EXCEPT ![c].confidence_ok = confidence_ok,
                                  ![c].pc = "check3"]
    /\ UNCHANGED <<loopVars, settings, phase, request, call, reasons, decision, response,
                   storeVars, classified, first>>

\* Checks 3 and 4: lines 214-228
CheckDocumentType(c) ==
    /\ callers[c].pc = "check3"
    /\ LET f == callers[c]
           doc_type == DocType[f.args.content]
           cs1 == SetCheck(callers, c, "document_type_is_invoice",
                           doc_type = "invoice")
           cs2 == SetCheck(cs1, c, "document_type_not_receipt",
                           ~(doc_type = "receipt"))
           cs3 == AppendReason(cs2, c, InvoiceClause(f.config, doc_type))
           cs4 == AppendReason(cs3, c, ReceiptClause(f.config, doc_type))
       IN  callers' = [cs4 EXCEPT ![c].doc_type = doc_type, ![c].pc = "check5"]
    /\ UNCHANGED <<loopVars, settings, phase, request, call, reasons, decision, response,
                   storeVars, classified, first>>

\* Check 5: lines 232-251
CheckBillTo(c) ==
    /\ callers[c].pc = "check5"
    /\ LET f == callers[c]
           bill_to_ok == BillToOk(f.config, f.args.bill_to)
           cs1 == AppendReason(callers, c, BillToClause(f.config, f.args.bill_to))
           cs2 == SetCheck(cs1, c, "bill_to_authorized", bill_to_ok)
       IN  callers' = [cs2 EXCEPT ![c].bill_to_ok = bill_to_ok, ![c].pc = "decide"]
    /\ UNCHANGED <<loopVars, settings, phase, request, call, reasons, decision, response,
                   storeVars, classified, first>>

\* The final decision: lines 261-293
Decide(c) ==
    /\ callers[c].pc = "decide"
    /\ LET f == callers[c]
           all_checks_passed ==
               AllChecksPassed(f.config, f.amount_ok, f.confidence_ok,
                               f.doc_type = "invoice", f.doc_type = "receipt",
                               f.bill_to_ok)
       IN  callers' = [callers EXCEPT
               ![c].decision =
                   Some([approved |-> all_checks_passed,
                         reason   |-> ReasonText(all_checks_passed, f.reasons,
                                                 f.args.amount, f.args.confidence),
                         checks   |-> f.checks,
                         metadata |-> [amount |-> f.args.amount,
                                       confidence |-> f.args.confidence,
                                       vendor |-> f.args.vendor,
                                       config |-> f.config]]),
               ![c].pc = "done"]
    /\ UNCHANGED <<loopVars, settings, phase, request, call, reasons, decision, response,
                   storeVars, classified, first>>

\* The caller has the decision; the frame is gone.  `first` keeps the first
\* call that completed.
ReturnDecision(c) ==
    /\ callers[c].pc = "done"
    /\ first' = IF first = None
                THEN Some([instance |-> callers[c].instance,
                           config |-> callers[c].config,
                           args |-> callers[c].args,
                           decision |-> callers[c].decision[1]])
                ELSE first
    /\ callers' = [callers EXCEPT ![c] = IdleFrame]
    /\ UNCHANGED <<loopVars, settings, phase, request, call, reasons, decision, response,
                   storeVars, classified>>

NextConcurrent ==
    \E c \in Threads :
        \/ CallEvaluate(c)
        \/ CheckAmount(c)
        \/ CheckConfidence(c)
        \/ CheckDocumentType(c)
        \/ CheckBillTo(c)
        \/ Decide(c)
        \/ ReturnDecision(c)

InitConcurrent == Init /\ settings = Settings("", None)

SpecConcurrent == InitConcurrent /\ [][NextConcurrent]_vars

----------------------------------------------------------------------------
(* Properties of the decision engine (specification Spec) *)

Evaluated == phase \in {"evaluate", "validate"}

AllChecksTrue(checks) == \A k \in DOMAIN checks : checks[k]

StartsWith(str, prefix) ==
    Len(str) >= Len(prefix) /\ SubSeq(str, 1, Len(prefix)) = prefix

\* C1 as stated: under every configuration, approved is true if and only if
\* every value of the checks map is true.
C1_ApprovedIffAllChecks ==
    Evaluated => (decision.approved <=> AllChecksTrue(decision.checks))

\* C1, amended: every check true implies approved; approved implies the
\* amount, confidence and bill-to checks are true; and when both
\* require_invoice_keyword and reject_receipt_keyword are on, approved is
\* true if and only if every value of the checks map is true.
C1_ApprovedIffAllChecksWhenFlagsOn ==
    Evaluated =>
        /\ AllChecksTrue(decision.checks) => decision.approved
        /\ decision.approved =>
              /\ decision.checks["amount_within_limit"]
              /\ decision.checks["confidence_sufficient"]
              /\ decision.checks["bill_to_authorized"]
        /\ (call.config.require_invoice_keyword
              /\ call.config.reject_receipt_keyword)
           => (decision.approved <=> AllChecksTrue(decision.checks))

C1_Witness ==
    /\ phase = "evaluate"
    /\ call.config.require_invoice_keyword
    /\ call.config.reject_receipt_keyword
    /\ call.config.allowed_bill_to_names # <<>>
    /\ decision.approved
    /\ AllChecksTrue(decision.checks)

\* C2: approved is the conjunction of checks 1, 2 and 5 and of checks 3 and
\* 4 when their config flag is on.
C2_ApprovedIsAndOfEnforcedChecks ==
    Evaluated =>
        decision.approved =
            (/\ decision.checks["amount_within_limit"]
             /\ decision.checks["confidence_sufficient"]
             /\ decision.checks["bill_to_authorized"]
             /\ (call.config.require_invoice_keyword
                   => decision.checks["document_type_is_invoice"])
             /\ (call.config.reject_receipt_keyword
                   => decision.checks["document_type_not_receipt"]))

\* approved although a disabled check is false
C2_Witness ==
    /\ phase = "evaluate"
    /\ ~call.config.require_invoice_keyword
    /\ ~decision.checks["document_type_is_invoice"]
    /\ decision.approved

\* The failed enforced checks of a decision, in the fixed order.
CheckOrder ==
    <<"amount_within_limit", "confidence_sufficient",
      "document_type_is_invoice", "document_type_not_receipt",
      "bill_to_authorized">>

Enforced(config, key) ==
    CASE key = "document_type_is_invoice" -> config.require_invoice_keyword
      [] key = "document_type_not_receipt" -> config.reject_receipt_keyword
      [] OTHER -> TRUE

FailedEnforced(config, checks) ==
    SelectSeq(CheckOrder, LAMBDA key : Enforced(config, key) /\ ~checks[key])

\* Whether a clause is one the given check produces.
ClauseIsFor(clause, key) ==
    CASE key = "amount_within_limit" ->
             StartsWith(clause, "Amount $") /\ Contains(clause, " exceeds limit of $")
      [] key = "confidence_sufficient" ->
             StartsWith(clause, "Confidence ") /\ Contains(clause, " below minimum ")
      [] key = "document_type_is_invoice" ->
             clause \in {"Document classified as receipt (not invoice)",
                         "Document type unclear - lacks invoice indicators"}
      [] key = "document_type_not_receipt" ->
             clause = "Document classified as receipt (not invoice)"
      [] key = "bill_to_authorized" ->
             \/ clause = "Bill To field not found on invoice"
             \/ StartsWith(clause, "Invoice not addressed to authorized company")

\* C3: a decision that is not approved has the reason "Requires manual
\* review: " followed by the clauses joined by "; ", one clause per failed
\* enforced check and in the order of the checks, so at least one clause.
C3_ReasonListsFailedEnforcedChecks ==
    (Evaluated /\ ~decision.approved) =>
        LET failed == FailedEnforced(call.config, decision.checks) IN
        /\ decision.reason = "Requires manual review: " \o Join(reasons, "; ")
        /\ Len(reasons) = Len(failed)
        /\ Len(reasons) >= 1
        /\ \A i \in 1..Len(reasons) : ClauseIsFor(reasons[i], failed[i])

\* a receipt under the default flags: checks 3 and 4 both fail
C3_Witness ==
    /\ phase = "evaluate"
    /\ ~decision.approved
    /\ Len(reasons) = 5

\* C4 as stated: two evaluations under the same config that produce equal
\* checks maps and have equal amount and confidence produce equal reasons.
C4_ReasonFromChecksAndNumbers ==
    phase = "evaluate" =>
        \A content \in Contents, bill_to \in BillTos :
            LET other == evaluate(call.config, call.amount, call.confidence,
                                  content, call.vendor, bill_to)
            IN  other.checks = decision.checks
                    => other.reason = decision.reason

\* C4, amended: two evaluations under the same config that produce equal
\* checks maps and have equal amount, confidence and bill_to produce equal
\* reasons, whatever the vendor and the document text.
C4_ReasonFromChecksNumbersAndBillTo ==
    phase = "evaluate" =>
        \A content \in Contents, vendor \in Vendors :
            LET other == evaluate(call.config, call.amount, call.confidence,
                                  content, vendor, call.bill_to)
            IN  other.checks = decision.checks
                    => other.reason = decision.reason

\* a rejected decision for which a call with another text and another
\* vendor gives the same checks
C4_Witness ==
    /\ phase = "evaluate"
    /\ ~decision.approved
    /\ \E content \in Contents \ {call.content}, vendor \in Vendors \ {call.vendor} :
          evaluate(call.config, call.amount, call.confidence, content, vendor,
                   call.bill_to).checks = decision.checks

\* Case-insensitive containment, character by character.
SameLetter(a, b) ==
    \/ a = b
    \/ \E k \in DOMAIN UpperToLower : {a, b} = {k, UpperToLower[k]}

OccursAt(str, sub, i) ==
    \A j \in 1..Len(sub) :
        SameLetter(SubSeq(str, i + j - 1, i + j - 1), SubSeq(sub, j, j))

ContainsIgnoringCase(str, sub) ==
    \E i \in 1..(Len(str) - Len(sub) + 1) : OccursAt(str, sub, i)

SomeNameIn(names, str) ==
    \E i \in 1..Len(names) : ContainsIgnoringCase(str, names[i])

\* C5 as stated: POST /invoices/validate applies the whitelist to the
\* bill_to of the request: bill_to_authorized is true when the bill_to
\* contains a whitelisted name, and otherwise it is false, the decision is
\* not approved and the reason says the invoice is not addressed to an
\* authorized company and names the bill_to.
C5_ValidateAppliesWhitelistToBillTo ==
    (/\ phase = "validate"
     /\ call.config.allowed_bill_to_names # <<>>
     /\ Truthy(request.bill_to)) =>
        LET named == SomeNameIn(call.config.allowed_bill_to_names,
                                request.bill_to[1])
            body == response.body
        IN  /\ response.status_code = 200
            /\ body.checks["bill_to_authorized"] = named
            /\ ~named =>
                  /\ ~body.approved
                  /\ Contains(Lower(body.reason),
                              "not addressed to authorized company")
                  /\ Contains(body.reason, request.bill_to[1])

\* C8: with a non-empty whitelist and a bill_to given, bill_to_authorized is
\* true if and only if some whitelist entry occurs in the bill_to, ignoring
\* case.
C8_BillToAuthorizedIffNameContained ==
    (/\ phase = "evaluate"
     /\ call.config.allowed_bill_to_names # <<>>
     /\ call.bill_to # None) =>
        (decision.checks["bill_to_authorized"]
            <=> SomeNameIn(call.config.allowed_bill_to_names, call.bill_to[1]))

\* a bill_to that contains an entry in another case and is longer than it
C8_Witness ==
    /\ phase = "evaluate"
    /\ call.config.allowed_bill_to_names # <<>>
    /\ call.bill_to # None
    /\ decision.checks["bill_to_authorized"]
    /\ \A i \in 1..Len(call.config.allowed_bill_to_names) :
          /\ call.config.allowed_bill_to_names[i] # call.bill_to[1]
          /\ ~Contains(call.bill_to[1], call.config.allowed_bill_to_names[i])

\* C9: with an empty whitelist bill_to_authorized is true for every bill_to,
\* None included, and the reason has no bill-to clause.
C9_EmptyWhitelistAuthorizesAll ==
    (Evaluated /\ call.config.allowed_bill_to_names = <<>>) =>
        /\ decision.checks["bill_to_authorized"]
        /\ ~Contains(decision.reason, "Bill To field not found")
        /\ ~Contains(decision.reason, "not addressed to authorized company")
        /\ \A i \in 1..Len(reasons) : ~ClauseIsFor(reasons[i], "bill_to_authorized")

\* no whitelist, no bill_to, and a decision that is not approved
C9_Witness ==
    /\ phase = "evaluate"
    /\ call.config.allowed_bill_to_names = <<>>
    /\ call.bill_to = None
    /\ ~decision.approved

\* C10: with a non-empty whitelist and no bill_to the decision has
\* bill_to_authorized false, is not approved and its reason contains
\* "Bill To field not found"; without a bill_to, bill_to_authorized is false
\* only if a whitelist is configured.
C10_MissingBillToFailsOnlyWithWhitelist ==
    (Evaluated /\ call.bill_to = None) =>
        /\ call.config.allowed_bill_to_names # <<>> =>
              /\ ~decision.checks["bill_to_authorized"]
              /\ ~decision.approved
              /\ Contains(decision.reason, "Bill To field not found")
        /\ ~decision.checks["bill_to_authorized"]
              => call.config.allowed_bill_to_names # <<>>

C10_Witness ==
    /\ phase = "evaluate"
    /\ call.bill_to = None
    /\ call.config.allowed_bill_to_names # <<>>
    /\ ~decision.checks["bill_to_authorized"]
    /\ decision.checks["amount_within_limit"]
    /\ decision.checks["confidence_sufficient"]
    /\ decision.checks["document_type_is_invoice"]

\* C11: amount_within_limit is true exactly when the amount is at most the
\* configured amount_threshold (equal to it included, negative amounts
\* included); an amount above the threshold gives a decision that is not
\* approved and whose reason contains "exceeds limit".
C11_AmountLimitInclusive ==
    Evaluated =>
        /\ call.amount = call.config.amount_threshold
              => decision.checks["amount_within_limit"]
        /\ call.amount < call.config.amount_threshold
              => decision.checks["amount_within_limit"]
        /\ call.amount > call.config.amount_threshold =>
              /\ ~decision.checks["amount_within_limit"]
              /\ ~decision.approved
              /\ Contains(decision.reason, "exceeds limit")

\* an amount equal to an overridden threshold, above the default one, approved
C11_Witness ==
    /\ phase = "evaluate"
    /\ call.amount = call.config.amount_threshold
    /\ call.amount > settings.approval_amount_threshold
    /\ decision.checks["amount_within_limit"]
    /\ decision.approved

\* C12: confidence_sufficient is true exactly when the confidence is at least
\* the configured min_confidence (equal to it included, values above 1
\* included); a confidence below the minimum gives a decision that is not
\* approved.
C12_ConfidenceMinimumInclusive ==
    Evaluated =>
        /\ call.confidence = call.config.min_confidence
              => decision.checks["confidence_sufficient"]
        /\ call.confidence > call.config.min_confidence
              => decision.checks["confidence_sufficient"]
        /\ call.confidence < call.config.min_confidence =>
              /\ ~decision.checks["confidence_sufficient"]
              /\ ~decision.approved

\* a confidence equal to an overridden minimum, approved
C12_Witness ==
    /\ phase = "evaluate"
    /\ call.confidence = call.config.min_confidence
    /\ call.confidence > settings.approval_min_confidence
    /\ decision.checks["confidence_sufficient"]
    /\ decision.approved

C20_VendorOnlyInMetadata ==
    Evaluated =>
        /\ decision.metadata =
              [amount |-> call.amount, confidence |-> call.confidence,
               vendor |-> call.vendor, config |-> call.config]
        /\ \A vendor \in Vendors :
              LET other == evaluate(call.config, call.amount, call.confidence,
                                    call.content, vendor, call.bill_to)
              IN  /\ other.approved = decision.approved
                  /\ other.checks = decision.checks
                  /\ other.reason = decision.reason
                  /\ other.metadata = [decision.metadata EXCEPT !.vendor = vendor]

\* an approved call without a vendor
C20_Witness ==
    /\ phase = "evaluate"
    /\ call.vendor = None
    /\ decision.approved
    /\ decision.metadata.vendor = None

----------------------------------------------------------------------------
(* Properties of classify_document_type (specification Spec) *)

Classified == phase = "classify"

\* C13: classify_document_type returns "unknown" for the empty text and for
\* None (it does not raise), and an evaluation of an empty or absent text
\* has document_type_is_invoice false and document_type_not_receipt true.
C13_EmptyTextIsUnknown ==
    /\ (Classified /\ ~Truthy(classified.text)) => classified.result = "unknown"
    /\ (Evaluated /\ ~Truthy(call.content)) =>
          /\ ~decision.checks["document_type_is_invoice"]
          /\ decision.checks["document_type_not_receipt"]

C13_Witness ==
    /\ Classified
    /\ classified.text = None
    /\ classified.result = "unknown"

\* C14: the result is "invoice" exactly when the accumulated score is above
\* 2, "receipt" exactly when it is below -2, and "unknown" exactly when it is
\* one of -2..2; the score is an integer.
C14_ResultByScoreThresholds ==
    (Classified /\ classified.score # None) =>
        LET score == classified.score[1] IN
        /\ score \in Int
        /\ classified.result = "invoice" <=> score > 2
        /\ classified.result = "receipt" <=> score < -2
        /\ classified.result = "unknown" <=> score \in -2..2

\* a score on the boundary
C14_Witness ==
    /\ Classified
    /\ classified.score = Some(2)
    /\ classified.result = "unknown"

\* The confirmation cues of C15, and the cues that ask for a payment still
\* to be made.
HasStrongConfirmationCues(t) ==
    /\ Contains(t, "amount paid")
    /\ Contains(t, "payment received")
    /\ Contains(t, "direct debit")
    /\ Contains(t, "$0.00")

HasPaymentRequestCue(t) ==
    \E cue \in {"please remit", "please pay", "payment required", "due date",
                 "payment due", "net 30", "net 60", "due upon receipt",
                 "payment terms", "remit to", "remit payment", "make payment to",
                 "bank details", "bsb", "account number", "eft details",
                 "wire transfer", "bpay", "direct deposit"} : Contains(t, cue)

\* C15 as stated: every text with an "amount paid" phrase, "payment
\* received" via "direct debit" and a "$0.00" balance is classified
\* "receipt".
C15_ConfirmationCuesGiveReceipt ==
    (/\ Classified
     /\ Truthy(classified.text)
     /\ HasStrongConfirmationCues(Lower(classified.text[1])))
        => classified.result = "receipt"

\* C15, amended: every text with these confirmation cues and without a cue
\* that asks for payment (payment terms, due date, remittance or bank
\* details) is classified "receipt", also when it has the word "invoice" or
\* an invoice number.
C15_ConfirmationCuesOutweighInvoiceWord ==
    (/\ Classified
     /\ Truthy(classified.text)
     /\ HasStrongConfirmationCues(Lower(classified.text[1]))
     /\ ~HasPaymentRequestCue(Lower(classified.text[1])))
        => classified.result = "receipt"

\* a paid invoice: the confirmation cues, the word "invoice" and an invoice
\* number
C15_Witness ==
    /\ Classified
    /\ Truthy(classified.text)
    /\ HasStrongConfirmationCues(Lower(classified.text[1]))
    /\ ~HasPaymentRequestCue(Lower(classified.text[1]))
    /\ Contains(classified.text[1], "INVOICE")
    /\ Contains(classified.text[1], "Invoice #")
    /\ ~Contains(Lower(classified.text[1]), "receipt")
    /\ classified.result = "receipt"

\* C16 as stated: the text, its upper-cased form and its lower-cased form
\* have the same result.
C16_SameResultInEveryCase ==
    (Classified /\ Truthy(classified.text)) =>
        /\ classify_document_type(Some(Lower(classified.text[1])))
              = classified.result
        /\ classify_document_type(Some(Upper(classified.text[1])))
              = classified.result

\* C16, amended: the text and its lower-cased form have the same result, and
\* so has its upper-cased form when lower-casing the upper-cased form gives
\* the lower-cased form (every ASCII text).
C16_SameResultInEveryAsciiCase ==
    (Classified /\ Truthy(classified.text)) =>
        /\ classify_document_type(Some(Lower(classified.text[1])))
              = classified.result
        /\ Lower(Upper(classified.text[1])) = Lower(classified.text[1]) =>
              classify_document_type(Some(Upper(classified.text[1])))
                  = classified.result

\* a text in mixed case whose cues decide the result
C16_Witness ==
    /\ Classified
    /\ Truthy(classified.text)
    /\ classified.text[1] # Lower(classified.text[1])
    /\ classified.text[1] # Upper(classified.text[1])
    /\ Lower(Upper(classified.text[1])) = Lower(classified.text[1])
    /\ classified.result = "invoice"
    /\ classify_document_type(Some(Upper(classified.text[1]))) = "invoice"

----------------------------------------------------------------------------
(* Properties of concurrent and repeated calls (specification SpecConcurrent) *)

Done(c) == callers[c].pc = "done"

\* C17: a call with the arguments and the config of a call that completed
\* earlier returns the decision that call returned (approved, reason, checks
\* and metadata), whatever calls were made in between and on whichever
\* instance, the same one included.
C17_SameArgumentsSameDecision ==
    \A c \in Threads :
        (/\ Done(c)
         /\ first # None
         /\ callers[c].args = first[1].args
         /\ callers[c].config = first[1].config)
            => callers[c].decision[1] = first[1].decision

\* a repeated call on the long-lived instance, not approved, that ran while
\* the other thread was evaluating another document
C17_Witness ==
    /\ first # None
    /\ first[1].instance = "long-lived"
    /\ Done(1)
    /\ callers[1].instance = "long-lived"
    /\ callers[1].args = first[1].args
    /\ ~callers[1].decision[1].approved
    /\ callers[2].pc = "decide"
    /\ callers[2].args # callers[1].args

\* C18: whatever the interleaving with the calls of other threads, a call
\* returns the decision that evaluate gives for its arguments and the config
\* that create_approval_rules gives for its overrides; the settings are
\* never written.
C18_ConcurrentCallsIndependent ==
    /\ settings = Settings("", None)
    /\ \A c \in Threads :
          Done(c) =>
              LET f == callers[c] IN
              f.decision[1] =
                  evaluate(RulesConfig(settings, f.overrides), f.args.amount,
                           f.args.confidence, f.args.content, f.args.vendor,
                           f.args.bill_to)

\* two calls done at the same time for the same receipt, one under the
\* settings and rejected, one under per-request overrides and approved
C18_Witness ==
    /\ Done(1)
    /\ Done(2)
    /\ callers[1].args = callers[2].args
    /\ callers[1].instance = "long-lived"
    /\ callers[2].instance = "request"
    /\ ~callers[1].decision[1].approved
    /\ callers[2].decision[1].approved

\* C25: in every decision evaluate returns, document_type_is_invoice = true
\* implies document_type_not_receipt = true, and document_type_not_receipt =
\* false comes with document_type_is_invoice = false: no decision reports its
\* document as an invoice and as a receipt at once.
C25_InvoiceImpliesNotReceipt ==
    Evaluated =>
        LET checks == decision.checks IN
        /\ checks["document_type_is_invoice"] => checks["document_type_not_receipt"]
        /\ ~checks["document_type_not_receipt"] => ~checks["document_type_is_invoice"]

\* A receipt has been evaluated with both document flags off: the receipt
\* check is false, the invoice check is false with it.
C25_Witness ==
    /\ phase = "evaluate"
    /\ ~call.config.require_invoice_keyword
    /\ ~call.config.reject_receipt_keyword
    /\ DocType[call.content] = "receipt"
    /\ ~decision.checks["document_type_not_receipt"]
    /\ ~decision.checks["document_type_is_invoice"]

\* The three "... due" phrases of lines 44-49.
DuePhrases == {"amount due", "balance due", "total due"}

\* The zero-balance rule of line 87 fires on t.
ZeroBalanceCue(t) ==
    \/ Contains(t, "$0.00")
    \/ Contains(t, "balance due 0")
    \/ Contains(t, "balance: $0.00")
    \/ Contains(t, "no payment required")

\* C24: the "amount due", "balance due" and "total due" rules each add +3
\* only when the text has no zero-amount marker.  For every classified text
\* and each of the three phrases the text does not have yet, the same text
\* with the phrase on a further line scores 3 more when the text has no
\* "$0.00" and exactly the same when it has; with all three phrases added
\* the score rises by 9 resp. 0.  With "balance due 0" added, the "balance
\* due" rule adds nothing: the score stays, or falls by the 4 of the
\* zero-balance rule when that rule had not fired before.
C24_ZeroMarkerSilencesDueRules ==
    (Classified /\ classified.score # None) =>
        LET t == Lower(classified.text[1])
            score == classified.score[1]
            zero == Contains(t, "$0.00")
            fresh == \A p \in DuePhrases : ~Contains(t, p)
        IN
        /\ \A p \in DuePhrases :
              ~Contains(t, p) =>
                  Score(t \o "\n" \o p) = score + (IF zero THEN 0 ELSE 3)
        /\ fresh => Score(t \o "\namount due\nbalance due\ntotal due")
                        = score + (IF zero THEN 0 ELSE 9)
        /\ fresh => Score(t \o "\nbalance due 0")
                        = score - (IF ZeroBalanceCue(t) THEN 0 ELSE 4)

\* A classified text with "Total Due" on its last line and a "$0.00" balance
\* above it: its score is the score of the text without that line.
C24_Witness ==
    /\ Classified
    /\ classified.score # None
    /\ LET t == Lower(classified.text[1]) IN
       /\ Len(t) > 10
       /\ SubSeq(t, Len(t) - 9, Len(t)) = "\ntotal due"
       /\ Contains(t, "$0.00")
       /\ Contains(t, "invoice #")
       /\ classified.score[1] = Score(SubSeq(t, 1, Len(t) - 10))

----------------------------------------------------------------------------
(* Properties of the settings (specification Spec) *)

\* The configuration create_approval_rules() builds from the settings alone.
SettingsDefaults(s) ==
    [amount_threshold        |-> s.approval_amount_threshold,
     min_confidence          |-> s.approval_min_confidence,
     require_invoice_keyword |-> s.approval_require_invoice_keyword,
     reject_receipt_keyword  |-> s.approval_reject_receipt_keyword,
     allowed_bill_to_names   |->
         IF s.approval_allowed_bill_to_names = "" THEN <<>>
         ELSE <<"Acme Industries", "Acme Corp">>]

\* The settings as the environment gave them at start-up.
StartupSettings == {Settings(e[1], e[2]) : e \in Environments}

\* C21: per-request overrides do not change the global defaults.  No step of
\* the engine (a create_approval_rules call with or without overrides, the
\* evaluate call on the rules it returned, the return) changes the settings,
\* which keep their start-up values, and a create_approval_rules() call
\* without overrides (the one /validate makes) that follows any such calls
\* yields the configuration of the settings defaults.
C21_OverridesLeaveSettingsUnchanged ==
    [][/\ settings' = settings
       /\ settings' \in StartupSettings
       /\ phase' = "validate" => call'.config = SettingsDefaults(settings)]_vars

\* An override call is in progress: its configuration differs from the
\* defaults in all four scalar fields, and the settings are the start-up ones.
C21_Witness ==
    /\ phase = "evaluate"
    /\ call.config.amount_threshold # settings.approval_amount_threshold
    /\ call.config.min_confidence # settings.approval_min_confidence
    /\ call.config.require_invoice_keyword # settings.approval_require_invoice_keyword
    /\ call.config.reject_receipt_keyword # settings.approval_reject_receipt_keyword
    /\ call.config.allowed_bill_to_names # SettingsDefaults(settings).allowed_bill_to_names
    /\ settings \in StartupSettings

----------------------------------------------------------------------------
(* Properties of the approval workflow (specifications SpecHttp, SpecTracker) *)

Decided(record) == record.status # "pending"

SameDecision(a, b) ==
    /\ a.status = b.status
    /\ a.decided_at = b.decided_at
    /\ a.decided_by = b.decided_by

\* The step answers an approve or reject request for the id.
AnswersDecisionRequest(approval_id) ==
    /\ request' \in {[op |-> "approve", approval_id |-> approval_id],
                     [op |-> "reject", approval_id |-> approval_id]}
    /\ (request' # request \/ response' # response)

\* C6: of the approve and reject requests on one approval id only the first
\* that finds the record pending changes it (to the status it asks for);
\* every later one gets the "Already Processed" page, and no request changes
\* the status, decided_at or decided_by of a decided record.
C6_OnlyFirstDecisionRequestTakesEffect ==
    [][\A approval_id \in DOMAIN approvals :
          /\ Decided(approvals[approval_id]) =>
                /\ approval_id \in DOMAIN approvals'
                /\ SameDecision(approvals'[approval_id], approvals[approval_id])
                /\ AnswersDecisionRequest(approval_id) =>
                      /\ response'.status_code = 200
                      /\ response'.page = "Already Processed"
          /\ (~Decided(approvals[approval_id])
                /\ AnswersDecisionRequest(approval_id)) =>
                /\ approvals'[approval_id].status =
                      (IF request'.op = "approve" THEN "approved" ELSE "rejected")
                /\ response'.page # "Already Processed"
      ]_vars

\* a reject request answered "Already Processed" for an approved record
C6_Witness ==
    /\ request # None
    /\ request.op = "reject"
    /\ response.status_code = 200
    /\ response.page = "Already Processed"
    /\ approvals[request.approval_id].status = "approved"
    /\ approvals[request.approval_id].decided_by = Some("user")

\* C7 as stated: once a record of a tracker is approved or rejected, its
\* status, decided_at and decided_by never change again.
C7_DecidedRecordNeverChanges ==
    [][/\ \A approval_id \in DOMAIN approvals :
             Decided(approvals[approval_id]) =>
                 SameDecision(approvals'[approval_id], approvals[approval_id])
       /\ \A approval_id \in DOMAIN db :
             Decided(db[approval_id]) =>
                 SameDecision(db'[approval_id], db[approval_id])
      ]_vars

\* C7, amended: a record's status moves from pending to approved or rejected
\* and never back to pending: a decided record stays in the tracker with
\* status approved or rejected and with decided_at and decided_by set; a
\* later approve or reject call on it may overwrite the three fields.
StaysDecided(before, after) ==
    /\ after.status \in {"pending", "approved", "rejected"}
    /\ Decided(before) => Decided(after)
    /\ Decided(after) => (after.decided_at # None /\ after.decided_by # None)

C7_DecidedRecordStaysDecided ==
    [][/\ \A approval_id \in DOMAIN approvals :
             /\ approval_id \in DOMAIN approvals'
             /\ StaysDecided(approvals[approval_id], approvals'[approval_id])
       /\ \A approval_id \in DOMAIN db :
             /\ approval_id \in DOMAIN db'
             /\ StaysDecided(db[approval_id], db'[approval_id])
      ]_vars

\* a reject call that succeeded on both trackers at a later time than the
\* record was created
C7_Witness ==
    /\ result # None
    /\ result.op = "reject"
    /\ result.mem = TRUE
    /\ result.sql = TRUE
    /\ approvals[result.id].status = "rejected"
    /\ db[result.id].status = "rejected"
    /\ approvals[result.id].decided_at # Some(approvals[result.id].created_at)

\* The record is well formed: a known status, and pending exactly when no
\* decision time and no decider are stored.
WellFormed(record) ==
    /\ record.status \in {"pending", "approved", "rejected"}
    /\ (record.status = "pending") <=> (record.decided_at = None)
    /\ (record.decided_at = None) <=> (record.decided_by = None)

\* C26: in every reachable state of an approval tracker (the in-memory one
\* and the SQLite one), after any sequence of create_approval, approve and
\* reject calls with approver names that are not null, every record has a
\* status in {pending, approved, rejected} and is pending iff decided_at is
\* null iff decided_by is null.
C26_RecordsWellFormed ==
    /\ \A id \in DOMAIN approvals : WellFormed(approvals[id])
    /\ \A id \in DOMAIN db : WellFormed(db[id])

\* A reject call has just decided the record of both trackers; a pending
\* record is the state before it.
C26_Witness ==
    /\ result # None
    /\ result.op = "reject"
    /\ result.id \in DOMAIN approvals
    /\ approvals[result.id].status = "rejected"
    /\ approvals[result.id].decided_at # None
    /\ approvals[result.id].decided_by = Some("manager@example.com")
    /\ db[result.id].status = "rejected"
    /\ db[result.id].decided_at # None
    /\ db[result.id].decided_by = Some("manager@example.com")

\* The fields the two backends are compared on.
SameRecord(m, q) ==
    /\ m.invoice_data = q.invoice_data
    /\ m.status = q.status
    /\ m.decided_by = q.decided_by

TrackerCallOnMissing(ops) ==
    /\ result' # result
    /\ result'.op \in ops
    /\ result'.id \notin DOMAIN approvals
    /\ result'.id \notin DOMAIN db
    /\ UNCHANGED <<request, response, now>>

\* The step answers an approve or reject request for an id the store does
\* not hold.
DecisionRequestOnMissing ==
    /\ (request' # request \/ response' # response)
    /\ request'.op \in {"approve", "reject"}
    /\ request'.approval_id \notin DOMAIN approvals
    /\ UNCHANGED <<result, now>>

\* C22: on an approval id that is not in the store, approve and reject
\* return False and get_approval returns None, on both trackers, and the
\* store is left as it was (no record created or modified); the approve and
\* reject endpoints answer 404 for such an id and leave the store as it was.
C22_MissingIdChangesNothing ==
    [][/\ TrackerCallOnMissing({"approve", "reject"}) =>
             /\ result'.mem = FALSE
             /\ result'.sql = FALSE
             /\ approvals' = approvals
             /\ db' = db
       /\ TrackerCallOnMissing({"get_approval"}) =>
             /\ result'.mem = None
             /\ result'.sql = None
             /\ approvals' = approvals
             /\ db' = db
       /\ DecisionRequestOnMissing =>
             /\ response' = [status_code |-> 404]
             /\ approvals' = approvals
             /\ db' = db
      ]_vars

\* A reject request for an id never created has been answered 404 after a
\* direct approve call on the same id returned False twice, and the one
\* record of the store is still pending.
C22_Witness ==
    /\ request # None
    /\ request.op = "reject"
    /\ request.approval_id \notin DOMAIN approvals
    /\ response = [status_code |-> 404]
    /\ result # None
    /\ result.op = "approve"
    /\ result.id = request.approval_id
    /\ result.mem = FALSE
    /\ result.sql = FALSE
    /\ DOMAIN approvals # {}
    /\ \A id \in DOMAIN approvals : approvals[id].status = "pending"
    /\ \A id \in DOMAIN db : db[id].status = "pending"

\* The step is a POST /invoices/process answered 200.
ProcessSucceeds ==
    /\ vars' # vars
    /\ UNCHANGED now
    /\ request'.op = "process"
    /\ response'.status_code = 200

\* The step adds exactly one record, with the id the response names.
CreatesOneRecord(approval_id) ==
    /\ approval_id \notin DOMAIN approvals
    /\ DOMAIN approvals' = DOMAIN approvals \cup {approval_id}
    /\ \A id \in DOMAIN approvals : approvals'[id] = approvals[id]
    /\ approvals'[approval_id].invoice_data = response'.invoice_data

\* The auto-approval half of C23.
AutoApprovedAtOrAboveThreshold ==
    LET approval_id == response'.approval_id
        extracted == request'.extracted[1]
    IN  extracted.confidence >= request'.confidence_threshold =>
            /\ approvals'[approval_id].status = "approved"
            /\ approvals'[approval_id].decided_by = Some("system-auto")
            /\ response'.status = "auto_approved"
            /\ teams' = teams

C28_RoutingDependsOnConfidenceOnly ==
    (/\ request # None
     /\ request.op = "process"
     /\ response.status_code = 200) =>
        LET extracted == request.extracted[1]
            threshold == request.confidence_threshold
        IN  /\ response.status \in {"auto_approved", "pending_approval"}
            /\ (response.status = "auto_approved")
                  <=> (extracted.confidence >= threshold)
            /\ \A other \in Extractions :
                  other.confidence = extracted.confidence =>
                      (MeetsThreshold(other, threshold)
                          <=> (response.status = "auto_approved"))
            /\ call = None
            /\ decision = None
            /\ phase = "idle"

\* A receipt of $6,000.00 without a bill_to has been auto-approved at
\* confidence 0.92, like the $385.00 invoice of the same confidence.
C28_Witness ==
    /\ request # None
    /\ request.op = "process"
    /\ response.status_code = 200
    /\ request.extracted[1].total = 600000
    /\ DocType[request.extracted[1].content] = "receipt"
    /\ request.extracted[1].bill_to = None
    /\ request.extracted[1].confidence = 920
    /\ response.status = "auto_approved"
    /\ decision = None

\* The step handles a request of a review path: POST /invoices/request-approval,
\* or POST /invoices/process with an extraction below the threshold.
ReviewRequestHandled ==
    /\ vars' # vars
    /\ UNCHANGED now
    /\ \/ request'.op = "request-approval"
       \/ /\ request'.op = "process"
          /\ request'.extracted # None
          /\ request'.extracted[1].confidence < request'.confidence_threshold

\* C29: on the review paths the approval record is created before the card
\* is posted and stays in the store, pending, whatever the post does: the
\* handler of such a request leaves a new pending record with the invoice
\* data of the request when the card was sent, when the post was skipped for
\* want of a webhook URL, and when the post raised and the request is
\* answered with an error (400 from /process, 500 from /request-approval);
\* and a card is only ever out for an id that has a record.
C29_ReviewRecordKeptWhateverThePost ==
    [][/\ ReviewRequestHandled =>
             LET approval_id == NewId(approvals) IN
             /\ approval_id \notin DOMAIN approvals
             /\ DOMAIN approvals' = DOMAIN approvals \cup {approval_id}
             /\ approvals'[approval_id].status = "pending"
             /\ approvals'[approval_id].decided_by = None
             /\ approvals'[approval_id].invoice_data =
                   (IF request'.op = "process"
                    THEN InvoiceDataOf(request'.extracted[1])
                    ELSE request'.fields)
             /\ response'.status_code \in {200, 400, 500}
             /\ response'.status_code = 200 =>
                   response'.approval_id = approval_id
             /\ teams' \subseteq teams \cup {approval_id}
       /\ teams \subseteq DOMAIN approvals
       /\ teams' \subseteq DOMAIN approvals'
      ]_vars

\* POST /invoices/request-approval has been answered 500 because the post to
\* the webhook raised: the record it created is in the store, pending, and
\* no card is out.
C29_Witness ==
    /\ request # None
    /\ request.op = "request-approval"
    /\ response = [status_code |-> 500]
    /\ Truthy(settings.teams_webhook_url)
    /\ DOMAIN approvals = {1}
    /\ approvals[1].status = "pending"
    /\ approvals[1].invoice_data = request.fields
    /\ teams = {}

\* The handler of req wrote the record.
TookEffect(req) ==
    /\ req \in DOMAIN answered
    /\ answered[req].response.status_code = 200
    /\ answered[req].response.page \in {"Invoice Approved", "Invoice Rejected"}

\* The handler of req found the record decided.
AlreadyProcessed(req) ==
    /\ req \in DOMAIN answered
    /\ answered[req].response.status_code = 200
    /\ answered[req].response.page = "Already Processed"

StatusOf(req) == IF req.op = "approve" THEN "approved" ELSE "rejected"

\* C27: when an approve request and a reject request for the same pending
\* approval id are in the server at the same time, exactly one of them takes
\* effect, in every order of handling.  The two never both write the record;
\* the record has the status of the request that found it pending and that
\* request's decision; a request handled while the record is decided gets
\* "Already Processed" with that status; and once the one that was handled
\* with its rival waiting has written, the rival, when handled, is refused.
C27_ConcurrentDecisionsOneTakesEffect ==
    \A req \in DecisionRequests :
        LET id == req.approval_id
            rival == Rival(req)
        IN  /\ ~(TookEffect(req) /\ TookEffect(rival))
            /\ TookEffect(req) =>
                  /\ approvals[id].status = StatusOf(req)
                  /\ approvals[id].decided_by = Some("user")
                  /\ rival \in DOMAIN answered =>
                        \/ AlreadyProcessed(rival)
                           /\ answered[rival].response.status = StatusOf(req)
                        \/ answered[rival].response.status_code = 404
                  /\ (answered[req].overlapped /\ rival \in DOMAIN answered) =>
                        AlreadyProcessed(rival)
            /\ AlreadyProcessed(req) =>
                  /\ TookEffect(rival)
                  /\ approvals[id].status = StatusOf(rival)
            /\ (id \in DOMAIN approvals /\ approvals[id].status # "pending") =>
                  (TookEffect(req) \/ TookEffect(rival))

\* Both requests for record 1 have been handled: the reject ran first while
\* the approve was waiting and wrote the record, the approve found it
\* rejected and was answered "Already Processed".
C27_Witness ==
    LET approve == [op |-> "approve", approval_id |-> 1]
        reject == [op |-> "reject", approval_id |-> 1]
    IN  /\ approve \in DOMAIN answered
        /\ reject \in DOMAIN answered
        /\ answered[reject].overlapped
        /\ ~answered[approve].overlapped
        /\ TookEffect(reject)
        /\ AlreadyProcessed(approve)
        /\ approvals[1].status = "rejected"

====
